---- MODULE Spec2Model ----
(***************************************************************************)
(* The send-side APNS client of src/client.go as a state machine.          *)
(*                                                                         *)
(* Every goroutine (a caller inside Send, a replay started with            *)
(* `go c.Send(n)`, `go c.reconnect()`, `go c.readErrs()`,                  *)
(* `go c.reportFailedPush(..)`, and the constructor) is a task: a record   *)
(* with its kind, its position pc in the code and its locals.  The tasks   *)
(* form a bag.  A critical section that holds a mutex and does not block   *)
(* is one step.  The connection, the APNS gateway and the consumer of      *)
(* FailedNotifs are the environment: their moves are nondeterministic.     *)
(***************************************************************************)
EXTENDS Naturals, Integers, Sequences, FiniteSets, Bags, TLC

(* ------------------------------ bounds -------------------------------- *)
\* Send calls a submitter makes when it is the only one.
MaxSends == 3
\* Faults of an established connection, all together: 6-byte error-responses
\* the gateway sends (after which it closes) and transport failures.
MaxFaults == 1
\* Largest identifier a caller supplies (0 = let the client assign).
MaxUserId == 2
\* Capacity of the sent window: newBuffer(1000) in the source, scaled down
\* so that the overflow branch of buffer.Add is reached.
WindowSize == 3

\* The callers of Send: each calls Send sequentially; they run concurrently.
Submitters == {1, 2}

\* How many Send calls each submitter makes: one submitter making MaxSends
\* calls, or two concurrent submitters making one call each.
Quotas == {<<MaxSends, 0>>, <<1, 1>>}

(* ---------------------------- notifications --------------------------- *)
\* Notification: ID is the caller's correlation tag (never sent), here
\* <<submitter, number of the call>>; Identifier is the APNS identifier;
\* valid says whether ToBinary can encode it.
Notif(sub, j, ident, valid) ==
    [ID |-> <<sub, j>>, Identifier |-> ident, valid |-> valid]

NoNotif == Notif(0, 0, 0, TRUE)

\* What a caller may pass as (Identifier, valid).
Inputs == ({0} \X BOOLEAN) \cup ((1..MaxUserId) \X {TRUE})

\* Notification.ToBinary: err != nil exactly for a notification that cannot
\* be encoded (bad token, payload too large, bad priority).
ToBinaryFails(n) == ~n.valid

\* Identifiers an error-response may carry (0: e.g. Shutdown).
ErrIds == 0..MaxUserId

VARIABLES
    tasks,          \* bag of running goroutines / calls
    id,             \* Client.id
    reconnecting,   \* Client.reconnecting (guarded by cond.L)
    sent,           \* Client.sent: the list, front first
    sentMu,         \* Client.sent.Mutex is held (by readErrs)
    connUp,         \* the connection behind Client.Conn is usable
    wire,           \* frames whose Conn.Write succeeded, in write order
    assigned,       \* identifiers Send took from the counter, in order
    FailedNotifs,   \* results a consumer received from Client.FailedNotifs
    quota,          \* per submitter: Send calls it will make (fixed)
    calls,          \* per submitter: Send calls made so far
    errs,           \* error-responses sent so far
    breaks          \* transport failures so far

vars == <<tasks, id, reconnecting, sent, sentMu, connUp, wire, assigned, FailedNotifs,
          quota, calls, errs, breaks>>

(* -------------------------------- tasks ------------------------------- *)
\* kind:   "newClient" | "Send" | "reconnect" | "readErrs" | "reportFailedPush"
\* pc:     position in the code of `kind` (or of reconnect, called inline)
\* n:      the notification (Send, reportFailedPush)
\* caller: the submitter blocked in this Send call, 0 for a goroutine
\* retry:  Send only: "first" in the caller's own call; in the recursive call
\*         after a failed write, how reconnect returned: "reconnected" (this
\*         task ran the reconnection) or "collapsed" (it returned at once)
\* replay: Send only: <<e, r>> for the r-th survivor resubmitted by the
\*         scan of the e-th error-response, <<0, 0>> otherwise
\* err:    readErrs/reportFailedPush: apnsErr.Identifier
Task(kind, pc, n, caller, replay, err) ==
    [kind |-> kind, pc |-> pc, n |-> n, caller |-> caller, retry |-> "first",
     replay |-> replay, err |-> err]

Running == BagToSet(tasks)

Put(b, t) == b (+) SetToBag({t})
Take(b, t) == b (-) SetToBag({t})
Move(b, t, u) == Put(Take(b, t), u)

\* The constructor has returned the client to its caller.
Constructed == \A t \in Running : t.kind # "newClient"

\* Submitter s is inside a Send call.
InSend(s) == \E t \in Running : t.kind = "Send" /\ t.caller = s

(* ------------------------------- Init --------------------------------- *)
\* newClientWithConn: the fields as constructed, about to call reconnect.
Init ==
    /\ tasks = SetToBag({Task("newClient", "reconnect", NoNotif, 0, <<0, 0>>, 0)})
    /\ id = 1
    /\ reconnecting = FALSE
    /\ sent = <<>>
    /\ sentMu = FALSE
    /\ connUp = FALSE
    /\ wire = <<>>
    /\ assigned = <<>>
    /\ FailedNotifs = <<>>
    /\ quota \in Quotas
    /\ calls = [s \in Submitters |-> 0]
    /\ errs = 0
    /\ breaks = 0

(* ------------------------------ buffer -------------------------------- *)
\* list.Remove of the element at position i (1 = front).
RemoveAt(s, i) == SubSeq(s, 1, i - 1) \o SubSeq(s, i + 1, Len(s))

\* buffer.Add without the eviction of the front.
Add_NoEvict(b, size, v) == Append(b, v)

\* buffer.Add, under the buffer's mutex: PushBack, then drop the front when
\* the list is longer than size.
Add(b, size, v) ==
    LET pushed == Append(b, v)
    IN  IF Len(pushed) > size THEN Tail(pushed) ELSE pushed

(* -------------------------------- Send -------------------------------- *)
\* Send, under idm: the identifier the notification leaves with.
AssignIdentifier(c, n) ==
    IF n.Identifier = 0 THEN [n EXCEPT !.Identifier = c] ELSE n

\* The counter set from a caller's identifier without comparing them.
NextId_Reset(c, n) ==
    IF n.Identifier = 0 THEN c + 1 ELSE n.Identifier + 1

\* The counter update without the branch for a caller's identifier.
NextId_NoJump(c, n) ==
    IF n.Identifier = 0 THEN c + 1 ELSE c

\* Send, under idm: the counter afterwards.  Client.id is a uint32; with at
\* most MaxSends calls and identifiers up to MaxUserId the counter stays below
\* MaxUserId + MaxSends + 2, far from 2^32, so no step here wraps around.
NextId(c, n) ==
    IF n.Identifier = 0 THEN c + 1
    ELSE IF c < n.Identifier THEN n.Identifier + 1
    ELSE c

\* A submitter calls Send(n) with a fresh notification.
Submit(s, in) ==
    /\ Constructed
    /\ ~InSend(s)
    /\ calls[s] < quota[s]
    /\ calls' = [calls EXCEPT ![s] = @ + 1]
    /\ tasks' = Put(tasks, Task("Send", "idm",
                                Notif(s, calls[s] + 1, in[1], in[2]),
                                s, <<0, 0>>, 0))
    /\ UNCHANGED <<quota, assigned, id, reconnecting, sent, sentMu, connUp, wire, FailedNotifs,
                   errs, breaks>>

\* Send going on to the write although ToBinary returned an error.
SendAssign_IgnoreErr(t) ==
    /\ t.kind = "Send" /\ t.pc = "idm"
    /\ LET n1 == AssignIdentifier(id, t.n)
       IN  /\ id' = NextId(id, t.n)
           /\ assigned' = IF t.n.Identifier = 0 THEN Append(assigned, n1.Identifier)
                                                ELSE assigned
           /\ tasks' = Move(tasks, t, [t EXCEPT !.n = n1, !.pc = "wait"])
    /\ UNCHANGED <<quota, reconnecting, sent, sentMu, connUp, wire, FailedNotifs,
                   calls, errs, breaks>>

\* Send, lines 97-110: set the identifier under idm, then ToBinary; an
\* encoding error is logged and the call returns.
SendAssign(t) ==
    /\ t.kind = "Send" /\ t.pc = "idm"
    /\ LET n1 == AssignIdentifier(id, t.n)
       IN  /\ id' = NextId(id, t.n)
           /\ assigned' = IF t.n.Identifier = 0 THEN Append(assigned, n1.Identifier)
                                                ELSE assigned
           /\ tasks' = IF ToBinaryFails(n1)
                         THEN Take(tasks, t)
                         ELSE Move(tasks, t, [t EXCEPT !.n = n1, !.pc = "wait"])
    /\ UNCHANGED <<quota, reconnecting, sent, sentMu, connUp, wire, FailedNotifs,
                   calls, errs, breaks>>

\* Send, lines 113-117: under cond.L, test the latch; cond.Wait() while it
\* is set.
SendCheckLatch(t) ==
    /\ t.kind = "Send" /\ t.pc = "wait"
    /\ tasks' = Move(tasks, t,
                     [t EXCEPT !.pc = IF reconnecting THEN "condWait" ELSE "Write"])
    /\ UNCHANGED <<quota, assigned, id, reconnecting, sent, sentMu, connUp, wire, FailedNotifs,
                   calls, errs, breaks>>

\* Send, line 119: Conn.Write(b) succeeds.
SendWrite(t) ==
    /\ t.kind = "Send" /\ t.pc = "Write"
    /\ connUp
    /\ wire' = Append(wire, [n |-> t.n, replay |-> t.replay])
    /\ tasks' = Move(tasks, t, [t EXCEPT !.pc = "Add"])
    /\ UNCHANGED <<quota, assigned, id, reconnecting, sent, sentMu, connUp, FailedNotifs,
                   calls, errs, breaks>>

\* Send adding to the window without looking at the error of Conn.Write.
SendWriteFail_Ignored(t) ==
    /\ t.kind = "Send" /\ t.pc = "Write"
    /\ ~connUp
    /\ tasks' = Move(tasks, t, [t EXCEPT !.pc = "Add"])
    /\ UNCHANGED <<quota, assigned, id, reconnecting, sent, sentMu, connUp, wire, FailedNotifs,
                   calls, errs, breaks>>

\* Send, lines 119-122: Conn.Write(b) fails; the call goes on to reconnect
\* and then to Send(n) again.
SendWriteFail(t) ==
    /\ t.kind = "Send" /\ t.pc = "Write"
    /\ ~connUp
    /\ tasks' = Move(tasks, t, [t EXCEPT !.pc = "reconnect"])
    /\ UNCHANGED <<quota, assigned, id, reconnecting, sent, sentMu, connUp, wire, FailedNotifs,
                   calls, errs, breaks>>

\* Send, line 130: c.sent.Add(n) once the buffer's mutex is free; return.
SendAdd(t) ==
    /\ t.kind = "Send" /\ t.pc = "Add"
    /\ ~sentMu
    /\ sent' = Add(sent, WindowSize, t.n)
    /\ tasks' = Take(tasks, t)
    /\ UNCHANGED <<quota, assigned, id, reconnecting, sentMu, connUp, wire, FailedNotifs,
                   calls, errs, breaks>>

(* ------------------------------ reconnect ----------------------------- *)
InReconnect(t) == t.kind \in {"newClient", "Send", "reconnect"}

\* The resubmission made with a notification whose identifier was not kept.
Return_Fresh(b, t) ==
    IF t.kind = "Send"
      THEN Move(b, t, [t EXCEPT !.pc = "idm", !.retry = "reconnected",
                                !.n = [t.n EXCEPT !.Identifier = 0]])
      ELSE Take(b, t)

\* The resubmission made as `go c.Send(n)`: the caller's Send returns.
Return_GoSend(b, t) ==
    IF t.kind = "Send"
      THEN Move(b, t, [t EXCEPT !.pc = "idm", !.retry = "reconnected",
                                !.caller = 0])
      ELSE Take(b, t)

\* reconnect returns: Send goes on to `c.Send(n)` (line 125); the goroutine
\* and the constructor end.
Return(b, t) ==
    IF t.kind = "Send"
      THEN Move(b, t, [t EXCEPT !.pc = "idm",
                                !.retry = IF t.pc = "reconnect" THEN "collapsed"
                                                                ELSE "reconnected"])
      ELSE Take(b, t)

\* reconnect without the test of the latch.
ReconnectEnter_NoLatch(t) ==
    /\ t.kind \in {"newClient", "Send", "reconnect"} /\ t.pc = "reconnect"
    /\ reconnecting' = TRUE
    /\ tasks' = Move(tasks, t, [t EXCEPT !.pc = "Connect"])
    /\ UNCHANGED <<quota, assigned, id, sent, sentMu, connUp, wire, FailedNotifs,
                   calls, errs, breaks>>

\* reconnect, lines 137-146: test-and-set the latch under cond.L; return
\* when another reconnection is in progress.
ReconnectEnter(t) ==
    /\ InReconnect(t) /\ t.pc = "reconnect"
    /\ IF reconnecting
         THEN /\ tasks' = Return(tasks, t)
              /\ UNCHANGED reconnecting
         ELSE /\ reconnecting' = TRUE
              /\ tasks' = Move(tasks, t, [t EXCEPT !.pc = "Connect"])
    /\ UNCHANGED <<quota, assigned, id, sent, sentMu, connUp, wire, FailedNotifs, calls, errs,
                   breaks>>

\* reconnect, lines 149-154: Conn.Connect() fails; sleep and retry.  The
\* attempt leaves no usable connection; losing one that was still usable
\* counts as a transport failure.
ConnectFail(t) ==
    /\ InReconnect(t) /\ t.pc = "Connect"
    /\ connUp => errs + breaks < MaxFaults
    /\ breaks' = IF connUp THEN breaks + 1 ELSE breaks
    /\ connUp' = FALSE
    /\ UNCHANGED <<quota, assigned, tasks, id, reconnecting, sent, sentMu, wire, FailedNotifs,
                   calls, errs>>

\* reconnect, lines 149-160: Conn.Connect() succeeds; `go c.readErrs()`.
ConnectOk(t) ==
    /\ InReconnect(t) /\ t.pc = "Connect"
    /\ connUp' = TRUE
    /\ tasks' = Put(Move(tasks, t, [t EXCEPT !.pc = "clear"]),
                    Task("readErrs", "Read", NoNotif, 0, <<0, 0>>, 0))
    /\ UNCHANGED <<quota, assigned, id, reconnecting, sent, sentMu, wire, FailedNotifs, calls,
                   errs, breaks>>

\* reconnect, lines 162-164: clear the latch under cond.L.
ReconnectClear(t) ==
    /\ InReconnect(t) /\ t.pc = "clear"
    /\ reconnecting' = FALSE
    /\ tasks' = Move(tasks, t, [t EXCEPT !.pc = "Broadcast"])
    /\ UNCHANGED <<quota, assigned, id, sent, sentMu, connUp, wire, FailedNotifs, calls, errs,
                   breaks>>

\* reconnect returning without the Broadcast: nobody in cond.Wait() wakes.
Wake_Lost(b) == b

\* cond.Broadcast(): every task in cond.Wait() wakes and tests the latch again.
Wake(b) ==
    LET woken(t) == IF t.pc = "condWait" THEN [t EXCEPT !.pc = "wait"] ELSE t
        T == {woken(t) : t \in BagToSet(b)}
    IN  [u \in T |->
            (IF u.pc # "condWait" THEN CopiesIn(u, b) ELSE 0)
          + (IF u.pc = "wait" THEN CopiesIn([u EXCEPT !.pc = "condWait"], b) ELSE 0)]

\* reconnect, line 165: Broadcast, then return.
ReconnectBroadcast(t) ==
    /\ InReconnect(t) /\ t.pc = "Broadcast"
    /\ tasks' = Wake(Return(tasks, t))
    /\ UNCHANGED <<quota, assigned, id, reconnecting, sent, sentMu, connUp, wire, FailedNotifs,
                   calls, errs, breaks>>

(* ------------------------------ readErrs ------------------------------ *)
\* readErrs, lines 193-205: the scan from the back of the list for the
\* notification whose Identifier is k; 0 when there is none.
RECURSIVE FindFromBack(_, _, _)
FindFromBack(s, k, cursor) ==
    IF cursor = 0 THEN 0
    ELSE IF s[cursor].Identifier = k THEN cursor
    ELSE FindFromBack(s, k, cursor - 1)

\* resend taken after the Remove: a removed element has no Next.
Survivors_AfterRemove(s, found) == <<>>

\* resend = cursor instead of cursor.Next().
Survivors_FromMatch(s, found) ==
    IF found = 0 THEN <<>> ELSE SubSeq(s, found, Len(s))

\* resend = the front of the list when nothing matched.
Survivors_Conservative(s, found) ==
    IF found = 0 THEN s ELSE SubSeq(s, found + 1, Len(s))

\* readErrs, lines 201 and 207-211: the notifications from resend to the
\* back, in list order; resend is nil when nothing matched.
Survivors(s, found) ==
    IF found = 0 THEN <<>> ELSE SubSeq(s, found + 1, Len(s))

\* The list after the scan: the matching element removed (line 202).
AfterScan(s, found) ==
    IF found = 0 THEN s ELSE RemoveAt(s, found)

\* `go c.Send(n)` for each survivor (line 209), as tasks added to bag b.
RECURSIVE SpawnSends(_, _, _, _)
SpawnSends(b, ns, e, r) ==
    IF r > Len(ns) THEN b
    ELSE SpawnSends(Put(b, Task("Send", "idm", ns[r], 0, <<e, r>>, 0)),
                    ns, e, r + 1)

\* `go c.reportFailedPush(n, apnsErr)` (line 200) when the scan matched.
SpawnReport(b, s, found, k) ==
    IF found = 0 THEN b
    ELSE Put(b, Task("reportFailedPush", "select", s[found], 0, <<0, 0>>, k))

\* readErrs replaying the whole window after a failed read.
ReadFail_Replay(t) ==
    /\ t.kind = "readErrs" /\ t.pc = "Read"
    /\ ~connUp
    /\ tasks' = SpawnSends(Put(Take(tasks, t),
                               Task("reconnect", "reconnect", NoNotif, 0, <<0, 0>>, 0)),
                           sent, 0, 1)
    /\ UNCHANGED <<quota, assigned, id, reconnecting, sent, sentMu, connUp, wire, FailedNotifs,
                   calls, errs, breaks>>

\* readErrs, lines 170-181: Conn.Read fails; `go c.reconnect()`; return.
ReadFail(t) ==
    /\ t.kind = "readErrs" /\ t.pc = "Read"
    /\ ~connUp
    /\ tasks' = Put(Take(tasks, t),
                    Task("reconnect", "reconnect", NoNotif, 0, <<0, 0>>, 0))
    /\ UNCHANGED <<quota, assigned, id, reconnecting, sent, sentMu, connUp, wire, FailedNotifs,
                   calls, errs, breaks>>

\* readErrs, lines 170-176: Conn.Read returns the gateway's 6-byte
\* error-response for identifier k (the gateway then closes the
\* connection); `go c.reconnect()`.
ReadErrorResponse(t, k) ==
    /\ t.kind = "readErrs" /\ t.pc = "Read"
    /\ connUp
    /\ errs + breaks < MaxFaults
    /\ errs' = errs + 1
    /\ connUp' = FALSE
    /\ tasks' = Put(Move(tasks, t, [t EXCEPT !.pc = "Lock", !.err = k,
                                             !.replay = <<errs + 1, 0>>]),
                    Task("reconnect", "reconnect", NoNotif, 0, <<0, 0>>, 0))
    /\ UNCHANGED <<quota, assigned, id, reconnecting, sent, sentMu, wire, FailedNotifs, calls,
                   breaks>>

\* readErrs, lines 187-211: lock the list, scan it, report and remove the
\* match, resubmit what follows it.
ReadErrsScan(t) ==
    /\ t.kind = "readErrs" /\ t.pc = "Lock"
    /\ ~sentMu
    /\ sentMu' = TRUE
    /\ LET found == FindFromBack(sent, t.err, Len(sent))
       IN  /\ sent' = AfterScan(sent, found)
           /\ tasks' = SpawnSends(
                           SpawnReport(Move(tasks, t, [t EXCEPT !.pc = "Unlock"]),
                                       sent, found, t.err),
                           Survivors(sent, found), t.replay[1], 1)
    /\ UNCHANGED <<quota, assigned, id, reconnecting, connUp, wire, FailedNotifs, calls, errs,
                   breaks>>

\* readErrs returning without the Unlock (the lock taken without `defer`).
ReadErrsUnlock_Missing(t) ==
    /\ t.kind = "readErrs" /\ t.pc = "Unlock"
    /\ tasks' = Take(tasks, t)
    /\ UNCHANGED <<quota, assigned, id, reconnecting, sent, sentMu, connUp, wire, FailedNotifs,
                   calls, errs, breaks>>

\* readErrs, line 188: the deferred Unlock; return.
ReadErrsUnlock(t) ==
    /\ t.kind = "readErrs" /\ t.pc = "Unlock"
    /\ sentMu' = FALSE
    /\ tasks' = Take(tasks, t)
    /\ UNCHANGED <<quota, assigned, id, reconnecting, sent, connUp, wire, FailedNotifs, calls,
                   errs, breaks>>

(* -------------------------- reportFailedPush -------------------------- *)
\* reportFailedPush as a plain channel send, without the default case.
reportFailedPush_Blocking(t, ready) ==
    /\ t.kind = "reportFailedPush" /\ t.pc = "select"
    /\ ready
    /\ FailedNotifs' = Append(FailedNotifs, [Notif |-> t.n, Err |-> t.err])
    /\ tasks' = Take(tasks, t)
    /\ UNCHANGED <<quota, assigned, id, reconnecting, sent, sentMu, connUp, wire,
                   calls, errs, breaks>>

\* reportFailedPush, lines 215-218: the select; ready says whether a
\* consumer is receiving from FailedNotifs at that moment.
reportFailedPush(t, ready) ==
    /\ t.kind = "reportFailedPush" /\ t.pc = "select"
    /\ FailedNotifs' = IF ready
                         THEN Append(FailedNotifs, [Notif |-> t.n, Err |-> t.err])
                         ELSE FailedNotifs
    /\ tasks' = Take(tasks, t)
    /\ UNCHANGED <<quota, assigned, id, reconnecting, sent, sentMu, connUp, wire, calls, errs,
                   breaks>>

(* ----------------------------- environment ---------------------------- *)
\* The established connection fails (closed by the peer, network error).
ConnBreak ==
    /\ connUp
    /\ errs + breaks < MaxFaults
    /\ breaks' = breaks + 1
    /\ connUp' = FALSE
    /\ UNCHANGED <<quota, assigned, tasks, id, reconnecting, sent, sentMu, wire, FailedNotifs,
                   calls, errs>>

(* -------------------------------- Next -------------------------------- *)
Next ==
    \/ \E s \in Submitters, in \in Inputs : Submit(s, in)
    \/ \E t \in Running : SendAssign(t)
    \/ \E t \in Running : SendCheckLatch(t)
    \/ \E t \in Running : SendWrite(t)
    \/ \E t \in Running : SendWriteFail(t)
    \/ \E t \in Running : SendAdd(t)
    \/ \E t \in Running : ReconnectEnter(t)
    \/ \E t \in Running : ConnectFail(t)
    \/ \E t \in Running : ConnectOk(t)
    \/ \E t \in Running : ReconnectClear(t)
    \/ \E t \in Running : ReconnectBroadcast(t)
    \/ \E t \in Running : ReadFail(t)
    \/ \E t \in Running, k \in ErrIds : ReadErrorResponse(t, k)
    \/ \E t \in Running : ReadErrsScan(t)
    \/ \E t \in Running : ReadErrsUnlock(t)
    \/ \E t \in Running, ready \in BOOLEAN : reportFailedPush(t, ready)
    \/ ConnBreak

Spec == Init /\ [][Next]_vars

(* ------------------------------ fairness ------------------------------ *)
\* A step of a goroutine of the client.  Not among them: a caller deciding
\* to call Send, the gateway sending an error-response, the connection
\* breaking and Connect failing, which nothing obliges to happen.
GoroutineStep ==
    \/ \E t \in Running : SendAssign(t)
    \/ \E t \in Running : SendCheckLatch(t)
    \/ \E t \in Running : SendWrite(t)
    \/ \E t \in Running : SendWriteFail(t)
    \/ \E t \in Running : SendAdd(t)
    \/ \E t \in Running : ReconnectEnter(t)
    \/ \E t \in Running : ConnectOk(t)
    \/ \E t \in Running : ReconnectClear(t)
    \/ \E t \in Running : ReconnectBroadcast(t)
    \/ \E t \in Running : ReadFail(t)
    \/ \E t \in Running : ReadErrsScan(t)
    \/ \E t \in Running : ReadErrsUnlock(t)
    \/ \E t \in Running, ready \in BOOLEAN : reportFailedPush(t, ready)

\* The client under a fair scheduler and a gateway that accepts a Connect
\* in the end: a goroutine that can take a step is not left waiting forever.
\* Every goroutine step moves a task forward and the faults are bounded, so
\* no step can be taken infinitely often at the expense of another.
FairSpec == Spec /\ WF_vars(GoroutineStep)

(* ============================== claims ================================ *)
SendTasks == {t \in Running : t.kind = "Send"}

\* The tasks a step starts or moves: those of the next state that the
\* current one does not hold.
Started == tasks' (-) tasks

StartedSet == BagToSet(Started)

\* The step is task t's scan of the window in readErrs: t takes the
\* buffer's mutex and goes on to its deferred Unlock.
ScanStep(t) ==
    /\ t.kind = "readErrs" /\ t.pc = "Lock"
    /\ ~sentMu /\ sentMu'
    /\ BagIn([t EXCEPT !.pc = "Unlock"], tasks')

\* Position i holds the notification the scan for identifier k stops at: the
\* one nearest the back with that identifier.
LastMatch(i, k) ==
    /\ i \in 1..Len(sent)
    /\ sent[i].Identifier = k
    /\ \A j \in (i + 1)..Len(sent) : sent[j].Identifier # k

\* The step starts a Send / a reportFailedPush for notification n.
Resubmitted(n) == \E u \in StartedSet : u.kind = "Send" /\ u.n = n
Reported(n) == \E u \in StartedSet : u.kind = "reportFailedPush" /\ u.n = n

(* ------------------------------- C1 ----------------------------------- *)
\* C1 as stated: when the error-reader scans the window for identifier k,
\* every notification in the window with an identifier > k is resubmitted
\* through Send or reported.
C1_Original ==
    [][\A t \in Running : ScanStep(t) =>
          \A i \in 1..Len(sent) :
             sent[i].Identifier > t.err =>
                Resubmitted(sent[i]) \/ Reported(sent[i])]_vars

\* C1 amended: when the identifier k of the error-response matches a
\* notification in the window, the match (the one nearest the back) is
\* reported and every notification positioned after it is resubmitted through
\* Send, as many times as it occurs there.
C1_ReplayAfterMatch ==
    [][\A t \in Running : ScanStep(t) =>
          \A i \in 1..Len(sent) : LastMatch(i, t.err) =>
             /\ Reported(sent[i])
             /\ \A j \in (i + 1)..Len(sent) :
                   Cardinality({u \in StartedSet : u.kind = "Send" /\ u.n = sent[j]})
                     >= Cardinality({h \in (i + 1)..Len(sent) : sent[h] = sent[j]})]_vars

\* C1 witness: a scan has matched and resubmitted two survivors; the reader
\* still holds the buffer's mutex.
C1_Witness ==
    \E t \in Running :
       /\ t.kind = "readErrs" /\ t.pc = "Unlock"
       /\ \E u, v \in SendTasks :
             /\ u.replay = <<t.replay[1], 1>> /\ v.replay = <<t.replay[1], 2>>
             /\ u.n.Identifier > t.err /\ v.n.Identifier > t.err

(* ------------------------------- C7 ----------------------------------- *)
\* C7: when the identifier of the error-response matches a notification in
\* the window, the scan offers exactly that one notification to FailedNotifs
\* (one reportFailedPush, for it), removes exactly that element from the
\* window, and starts a Send only for positions after it: neither the match
\* nor anything positioned before it is resubmitted.
C7_MatchReportedRemovedNotResent ==
    [][\A t \in Running : ScanStep(t) =>
          \A i \in 1..Len(sent) : LastMatch(i, t.err) =>
             /\ \A u \in StartedSet : u.kind = "reportFailedPush" =>
                   u.n = sent[i] /\ u.err = t.err /\ CopiesIn(u, Started) = 1
             /\ Cardinality({u \in StartedSet : u.kind = "reportFailedPush"}) = 1
             /\ Len(sent') = Len(sent) - 1
             /\ \A h \in 1..(i - 1) : sent'[h] = sent[h]
             /\ \A h \in i..(Len(sent) - 1) : sent'[h] = sent[h + 1]
             /\ \A u \in StartedSet : u.kind = "Send" =>
                   /\ CopiesIn(u, Started) = 1
                   /\ u.replay[2] \in 1..(Len(sent) - i)
                   /\ u.n = sent[i + u.replay[2]]]_vars

\* C7 witness: the window held identifiers 1, 2, 3 and the error-response
\* named 2: 2 is being reported, 1 and 3 remain, only 3 is resubmitted.
C7_Witness ==
    \E t \in Running :
       /\ t.kind = "readErrs" /\ t.pc = "Unlock" /\ t.err = 2
       /\ Len(sent) = 2 /\ sent[1].Identifier = 1 /\ sent[2].Identifier = 3
       /\ \E u \in Running : u.kind = "reportFailedPush" /\ u.n.Identifier = 2
       /\ \E u \in SendTasks : u.replay = <<t.replay[1], 1>> /\ u.n = sent[2]
       /\ ~\E u \in SendTasks : u.replay[1] = t.replay[1] /\ u.n = sent[1]

(* ------------------------------- C2 ----------------------------------- *)
\* C2: in every reachable state the sent window holds at most WindowSize
\* notifications (the source's 1000, scaled), and a step that adds to a full
\* window leaves it full, with the old front gone and the others shifted.
C2_WindowBound ==
    /\ [](Len(sent) <= WindowSize)
    /\ [][(Len(sent) = WindowSize /\ Len(sent') >= Len(sent) /\ sent' # sent)
            => /\ Len(sent') = WindowSize
               /\ \A i \in 1..(WindowSize - 1) : sent'[i] = sent[i + 1]]_vars

\* C2 witness: every frame written has been added (no Send is between its
\* Write and its Add), more were added than the window and the scans can
\* account for, so the front was discarded at least once.
C2_Witness ==
    /\ \A t \in SendTasks : t.pc # "Add"
    /\ Len(sent) = WindowSize
    /\ Len(wire) > WindowSize + errs

\* Task t takes a step of its own (every step of a task moves or ends it).
StepOf(t) == CopiesIn(t, tasks') < CopiesIn(t, tasks)

\* How many running tasks satisfy pcs.
RECURSIVE CountAt(_, _)
CountAt(S, pcs) ==
    IF S = {} THEN 0
    ELSE LET t == CHOOSE x \in S : TRUE
         IN  (IF t.pc \in pcs THEN CopiesIn(t, tasks) ELSE 0)
             + CountAt(S \ {t}, pcs)

(* ------------------------------- C3 ----------------------------------- *)
\* C3 as stated: the identifier of each frame written to the connection is
\* strictly greater than the identifiers of all frames written before it.
C3_Original ==
    \A i, j \in DOMAIN wire :
       i < j => wire[i].n.Identifier < wire[j].n.Identifier

\* C3 amended: each identifier the client assigns (to a notification
\* submitted with identifier 0) is strictly greater than every identifier it
\* assigned before and not smaller than any identifier already written, and
\* the counter ends above it; a caller's identifier is kept as it is, and
\* one strictly greater than the counter makes the counter jump past it.
C3_AssignedIncreasing ==
    [][/\ Len(assigned') > Len(assigned) =>
             LET a == assigned'[Len(assigned')]
             IN  /\ \A i \in DOMAIN assigned : assigned[i] < a
                 /\ \A i \in DOMAIN wire : wire[i].n.Identifier <= a
                 /\ id' > a
       /\ \A t \in SendTasks :
             (StepOf(t) /\ t.pc = "idm" /\ t.n.Identifier # 0) =>
                /\ BagIn([t EXCEPT !.pc = "wait"], Started)
                /\ t.n.Identifier > id => id' = t.n.Identifier + 1
                /\ id' >= id]_vars

\* C3 witness: a caller's identifier 2 was written, the counter jumped past
\* it, and the next notification was assigned 3 and written.
C3_Witness ==
    /\ assigned = <<3>>
    /\ Len(wire) = 2
    /\ wire[1].n.Identifier = 2 /\ wire[2].n.Identifier = 3

(* ------------------------------- C4 ----------------------------------- *)
\* C4: a Send called with a non-zero identifier u keeps u and leaves the
\* counter strictly greater than u.
C4_CounterPastUserId ==
    [][\A t \in SendTasks :
          (StepOf(t) /\ t.pc = "idm" /\ t.retry = "first" /\ t.caller # 0
             /\ t.n.Identifier # 0) =>
             /\ BagIn([t EXCEPT !.pc = "wait"], Started)
             /\ id' > t.n.Identifier]_vars

(* ------------------------------- C5 ----------------------------------- *)
\* C5: at most one task is between setting the latch and clearing it (in the
\* Connect retry loop), and the latch is set exactly then; a caller of
\* reconnect that finds the latch set returns without entering the loop, a
\* Send among them going on to its resubmission; and a Send leaves its wait
\* on the latch for Conn.Write only in a state where the latch is clear.
C5_SingleReconnection ==
    /\ [](/\ CountAt(Running, {"Connect", "clear"}) <= 1
          /\ reconnecting <=> CountAt(Running, {"Connect", "clear"}) = 1)
    /\ [][\A t \in Running :
             /\ (StepOf(t) /\ t.pc = "reconnect" /\ reconnecting) =>
                   /\ ~BagIn([t EXCEPT !.pc = "Connect"], Started)
                   /\ connUp' = connUp
                   /\ reconnecting'
                   /\ t.kind = "Send" =>
                         \E u \in StartedSet :
                            u.kind = "Send" /\ u.pc = "idm" /\ u.n = t.n
                   /\ t.kind # "Send" => Started = EmptyBag
             /\ (StepOf(t) /\ t.kind = "Send" /\ t.pc = "wait"
                   /\ BagIn([t EXCEPT !.pc = "Write"], Started)) =>
                   ~reconnecting]_vars

\* C5 witness: the reconnection started by the error-reader is in its Connect
\* loop while a Send whose own call of reconnect returned at once waits on
\* the latch.
C5_Witness ==
    /\ reconnecting
    /\ \E r \in Running : r.kind = "reconnect" /\ r.pc = "Connect"
    /\ \E t \in SendTasks : t.retry = "collapsed" /\ t.pc = "condWait"

(* ------------------------------- C6 ----------------------------------- *)
\* C6: a reportFailedPush can always complete with no consumer ready (the
\* offer is dropped), and the error-reader that started it goes on to its
\* return without waiting for it: nothing waits for a FailedNotifs consumer.
C6_ReportNeverBlocks ==
    \A t \in Running :
       /\ t.kind = "reportFailedPush" => ENABLED reportFailedPush(t, FALSE)
       /\ (t.kind = "readErrs" /\ t.pc = "Unlock") => ENABLED ReadErrsUnlock(t)
       /\ t.pc = "select" => t.kind = "reportFailedPush"

\* C6 witness: a scan matched (it resubmitted a survivor), its report has
\* already been dropped with nothing received on FailedNotifs, and the
\* error-reader has not even returned yet.
C6_Witness ==
    /\ FailedNotifs = <<>>
    /\ \A t \in Running : t.kind # "reportFailedPush"
    /\ \E t \in Running :
          /\ t.kind = "readErrs" /\ t.pc = "Unlock"
          /\ \E u \in SendTasks : u.replay[1] = t.replay[1]

(* ------------------------------- C8 ----------------------------------- *)
\* C8: the frames of the survivors resubmitted after one error-response are
\* written in the order of the window, oldest first.
C8_ReplayWrittenInOrder ==
    \A i, j \in DOMAIN wire :
       (i < j /\ wire[i].replay[1] # 0 /\ wire[i].replay[1] = wire[j].replay[1])
          => wire[i].replay[2] <= wire[j].replay[2]

(* ------------------------------- C9 ----------------------------------- *)
\* C9: a Send whose Conn.Write fails leaves the window as it is and goes on
\* to reconnect; when reconnect returns, the same notification is submitted
\* again (same caller, same identifier); that resubmission does not move
\* the counter; and a resubmitted Send ends only by adding to the window
\* after a successful write.
C9_WriteFailureResubmits ==
    [][\A t \in SendTasks : StepOf(t) =>
          /\ (t.pc = "Write" /\ wire' = wire) =>
                /\ sent' = sent
                /\ BagIn([t EXCEPT !.pc = "reconnect"], Started)
          /\ (t.pc \in {"reconnect", "Broadcast"}) =>
                \/ t.pc = "reconnect" /\ BagIn([t EXCEPT !.pc = "Connect"], Started)
                \/ \E u \in StartedSet :
                      /\ u.kind = "Send" /\ u.pc = "idm" /\ u.retry # "first"
                      /\ u.n = t.n /\ u.n.Identifier # 0 /\ u.caller = t.caller
          /\ (t.pc = "idm" /\ t.retry # "first") =>
                /\ id' = id
                /\ BagIn([t EXCEPT !.pc = "wait"], Started)
          /\ (t.retry # "first"
                /\ ~\E u \in StartedSet : u.kind = "Send" /\ u.n = t.n) =>
                /\ t.pc = "Add"
                /\ Len(sent') > 0 /\ sent'[Len(sent')] = t.n]_vars

\* C9 witness: a caller's Send, in its recursive call after a failed write,
\* has just written its frame and has not yet added it to the window.
C9_Witness ==
    \E t \in SendTasks :
       /\ t.retry # "first" /\ t.pc = "Add" /\ t.caller # 0
       /\ Len(wire) > 0 /\ wire[Len(wire)].n = t.n
       /\ \A i \in DOMAIN sent : sent[i] # t.n

(* ------------------------------- C10 ---------------------------------- *)
\* C10: for each submitter, the first successful writes of its notifications
\* occur in the order of its Send calls: a frame of an earlier call is never
\* written for the first time after a frame of a later call.
C10_SubmitterOrder ==
    \A i, j \in DOMAIN wire :
       (/\ i < j
        /\ wire[i].n.ID[1] = wire[j].n.ID[1]
        /\ wire[i].n.ID[2] > wire[j].n.ID[2])
          => \E h \in 1..(i - 1) : wire[h].n.ID = wire[j].n.ID

\* C10 witness: the submitter's second notification was written only in the
\* recursive call after a failed write and a reconnection, after its first.
C10_Witness ==
    /\ Len(wire) = 2
    /\ wire[1].n.ID = <<1, 1>> /\ wire[2].n.ID = <<1, 2>>
    /\ \E t \in SendTasks :
          t.n = wire[2].n /\ t.retry = "reconnected" /\ t.pc = "Add"

(* ------------------------------- C11 ---------------------------------- *)
\* C11: a transport error alone causes no report and no replay.  A step in
\* which the error-reader's read fails, a step in which a Send's write fails,
\* and every step of the reconnection that follows either (in the Send itself
\* or in the goroutine the reader started) leaves the window and FailedNotifs
\* as they are and starts no reportFailedPush; the only Send it starts is the
\* failed Send's own resubmission, of a notification that is not in the
\* window unless that Send was itself a replay after an error-response.
C11_TransportErrorOnly ==
    [][\A t \in Running :
          (/\ StepOf(t)
           /\ \/ t.kind = "readErrs" /\ t.pc = "Read" /\ errs' = errs
              \/ t.kind = "Send" /\ t.pc = "Write" /\ wire' = wire
              \/ t.kind \in {"Send", "reconnect"}
                    /\ t.pc \in {"reconnect", "Connect", "clear", "Broadcast"}) =>
             /\ sent' = sent
             /\ FailedNotifs' = FailedNotifs
             /\ \A u \in StartedSet :
                   /\ u.kind # "reportFailedPush"
                   /\ (u.kind = "Send" /\ u.pc = "idm") =>
                         /\ t.kind = "Send" /\ u.n = t.n /\ u.caller = t.caller
                         /\ u.replay = t.replay
                         /\ t.replay = <<0, 0>> =>
                               \A i \in DOMAIN sent : sent[i] # t.n]_vars

\* C11 witness: no error-response was ever read; the reader's read failed
\* (its reconnect goroutine runs) and a Send's write failed too (its own call
\* of reconnect returned at once and it is about to be resubmitted), while
\* the window still holds an earlier notification and nothing was reported.
C11_Witness ==
    /\ errs = 0
    /\ Len(sent) >= 1
    /\ FailedNotifs = <<>>
    /\ \E r \in Running : r.kind = "reconnect"
    /\ \E t \in SendTasks : t.retry = "collapsed" /\ t.pc = "idm"
    /\ \A u \in Running : u.kind # "reportFailedPush"

\* The step is Send task t's identifier assignment and encoding, and the
\* encoding (ToBinary) fails.
EncodingFails(t) ==
    /\ t.kind = "Send" /\ t.pc = "idm"
    /\ StepOf(t)
    /\ ToBinaryFails(AssignIdentifier(id, t.n))

(* ------------------------------- C12 ---------------------------------- *)
\* C12: a Send whose notification fails binary encoding returns in that
\* step: nothing is written to the connection, nothing is appended to the
\* window, the latch and the connection are left alone and no task (no
\* reconnection, no resubmission) is started; so a notification that cannot
\* be encoded never gets past the encoding, onto the wire or into the window.
C12_EncodingFailureReturns ==
    /\ [][\A t \in Running : EncodingFails(t) =>
             /\ wire' = wire
             /\ sent' = sent
             /\ reconnecting' = reconnecting
             /\ connUp' = connUp
             /\ Started = EmptyBag
             /\ BagCardinality(tasks') = BagCardinality(tasks) - 1]_vars
    /\ [](/\ \A t \in SendTasks : t.pc # "idm" => ~ToBinaryFails(t.n)
          /\ \A i \in DOMAIN wire : ~ToBinaryFails(wire[i].n)
          /\ \A i \in DOMAIN sent : ~ToBinaryFails(sent[i]))

\* C12 witness: the only Send call made so far took an identifier from the
\* counter and has returned, on a client that is connected and not
\* reconnecting, with nothing written and nothing in the window: it
\* returned at the encoding error.
C12_Witness ==
    /\ Constructed /\ connUp /\ ~reconnecting
    /\ calls[1] = 1 /\ calls[2] = 0
    /\ assigned = <<1>> /\ id = 2
    /\ SendTasks = {}
    /\ wire = <<>> /\ sent = <<>>
    /\ errs = 0 /\ breaks = 0

(* ------------------------------- C13 ---------------------------------- *)
\* C13: a Send whose notification fails binary encoding reports it through
\* FailedNotifs before it returns: the step in which it returns delivers the
\* notification to FailedNotifs or at least starts a reportFailedPush for it.
C13_EncodingFailureReported ==
    [][\A t \in Running : EncodingFails(t) =>
          \/ /\ Len(FailedNotifs') = Len(FailedNotifs) + 1
             /\ FailedNotifs'[Len(FailedNotifs')].Notif.ID = t.n.ID
          \/ \E u \in StartedSet :
                u.kind = "reportFailedPush" /\ u.n.ID = t.n.ID]_vars

\* How many frames of notification n the connection accepted.
Written(n) == Cardinality({i \in DOMAIN wire : wire[i].n = n})

(* ------------------------------- C14 ---------------------------------- *)
\* C14: the window holds only notifications whose frame was written: in
\* every reachable state each notification in the window, and each one a
\* Send is about to add, has a successful Conn.Write of its frame behind it;
\* and the only step that puts a notification into the window is the Add of
\* a Send that has just written that notification's frame.
C14_WindowOnlyWritten ==
    /\ [](/\ \A i \in DOMAIN sent : Written(sent[i]) >= 1
          /\ \A t \in SendTasks : t.pc = "Add" =>
                \E i \in DOMAIN wire : wire[i] = [n |-> t.n, replay |-> t.replay])
    /\ [][\A n \in {sent'[i] : i \in DOMAIN sent'} :
             Cardinality({i \in DOMAIN sent' : sent'[i] = n})
               > Cardinality({i \in DOMAIN sent : sent[i] = n}) =>
                \E t \in SendTasks :
                   /\ StepOf(t) /\ t.pc = "Add" /\ t.n = n
                   /\ wire' = wire /\ Written(n) >= 1
                   /\ sent'[Len(sent')] = n]_vars

\* C14 witness: a Send whose write failed is on its way to reconnect; its
\* notification was never written and is not in the window, which holds an
\* earlier notification that was.
C14_Witness ==
    \E t \in SendTasks :
       /\ t.pc = "reconnect"
       /\ Written(t.n) = 0
       /\ Len(sent) >= 1
       /\ \A i \in DOMAIN sent : sent[i] # t.n

(* ------------------------------- C15 ---------------------------------- *)
\* C15: in every reachable state the identifiers of the notifications in the
\* window are strictly increasing from front to back; in particular no
\* identifier occurs twice in the window.
C15_WindowIncreasing ==
    \A i, j \in DOMAIN sent :
       i < j => sent[i].Identifier < sent[j].Identifier

(* ------------------------------- C16 ---------------------------------- *)
\* C16: when the identifier of the error-response matches no notification in
\* the window, the scan leaves the window and FailedNotifs as they are and
\* starts nothing: no reportFailedPush and no Send; the reader only goes on
\* to its Unlock.
C16_NoMatchNoEffect ==
    [][\A t \in Running :
          (/\ ScanStep(t)
           /\ \A i \in DOMAIN sent : sent[i].Identifier # t.err) =>
             /\ sent' = sent
             /\ FailedNotifs' = FailedNotifs
             /\ Started = SetToBag({[t EXCEPT !.pc = "Unlock"]})
             /\ BagCardinality(tasks') = BagCardinality(tasks)]_vars

\* C16 witness: the reader has scanned a window of two notifications for an
\* identifier that neither has (0, or one never sent) and still holds the
\* buffer's mutex: both are still there, every frame written is in the
\* window, and no report and no replay is running.
C16_Witness ==
    \E t \in Running :
       /\ t.kind = "readErrs" /\ t.pc = "Unlock"
       /\ Len(sent) = 2 /\ Len(wire) = 2
       /\ \A i \in DOMAIN sent : sent[i].Identifier # t.err /\ wire[i].n = sent[i]
       /\ \A u \in Running : u.kind # "reportFailedPush" /\ u.replay[2] = 0

\* pc = "Write": the Send has left the latch wait (cond.L released, line
\* 117) and is in, or about to enter, Conn.Write (line 119); it holds no
\* lock there.
Writing == {t \in SendTasks : t.pc = "Write"}

(* ------------------------------- C17 ---------------------------------- *)
\* C17: while a reconnection is in progress (the latch is set) no Send
\* performs Conn.Write, and no Connect is executed while a Send is past the
\* latch wait, in Conn.Write.
C17_NoWriteWhileReconnecting ==
    [][\A t \in Running : StepOf(t) =>
          /\ (t.kind = "Send" /\ t.pc = "Write") => ~reconnecting
          /\ t.pc = "Connect" => Writing = {}]_vars

(* ------------------------------- C18 ---------------------------------- *)
\* C18: at most one error-reader exists at any time (blocked in Conn.Read
\* or processing what it read), and none is blocked in Conn.Read while a
\* reconnection is in its Connect loop.
C18_SingleReader ==
    LET readers == {t \in Running : t.kind = "readErrs"}
    IN  /\ CountAt(readers, {"Read", "Lock", "Unlock"}) <= 1
        /\ (\E t \in Running : t.pc = "Connect") =>
              CountAt(readers, {"Read"}) = 0

(* ------------------------------- C20 ---------------------------------- *)
\* C20: the client serializes the frame writes: at most one Send is in
\* Conn.Write at any time.
C20_WritesSerialized ==
    CountAt(Writing, {"Write"}) <= 1

(* ------------------------------- C19 ---------------------------------- *)
\* The error-reader has completed its read and the `go c.reconnect()` it
\* started has not yet tested the latch (only readErrs starts a reconnect
\* goroutine).
TriggerPending == \E t \in Running : t.kind = "reconnect" /\ t.pc = "reconnect"

\* A reconnection is in its Connect loop; under FairSpec its Connect
\* succeeds and starts a new error-reader.
Connecting == \E t \in Running : t.pc = "Connect"

\* C19: every completed read of the error-reader is eventually followed by
\* a reconnection: once the reader has triggered reconnect, a reconnection
\* is, or comes to be, in its Connect loop (which, Connect succeeding in the
\* end, starts a new error-reader).
C19_ReadLeadsToReconnect == TriggerPending ~> Connecting

(* ------------------------------- C21 ---------------------------------- *)
\* Some Send is in cond.Wait() / in the latch wait of lines 113-117 (about
\* to test the latch, or in cond.Wait()).
InCondWait == \E t \in SendTasks : t.pc = "condWait"
InLatchWait == \E t \in SendTasks : t.pc \in {"wait", "condWait"}

\* C21: no wake-up on the latch is lost: under a fair scheduler and with
\* Connect succeeding in the end, whenever Sends wait in cond.Wait() a
\* moment comes at which no Send is in the latch wait any more; and a Send
\* leaves cond.Wait() only to test the latch again, and the latch wait only
\* for its Conn.Write; and the Broadcast that ends a reconnection leaves no
\* Send in cond.Wait().  So every Send that waited was released and got to
\* its write.
C21_WaiterReleased ==
    /\ InCondWait ~> ~InLatchWait
    /\ [][\A r \in Running :
             (StepOf(r) /\ InReconnect(r) /\ r.pc = "Broadcast") =>
                \A t \in BagToSet(tasks') : t.pc # "condWait"]_vars
    /\ [][\A t \in SendTasks :
             (StepOf(t) /\ t.pc \in {"wait", "condWait"}) =>
                /\ \E u \in StartedSet :
                      /\ u = [t EXCEPT !.pc = u.pc]
                      /\ u.pc \in (IF t.pc = "wait" THEN {"condWait", "Write"}
                                                     ELSE {"wait"})
                /\ BagCardinality(tasks') >= BagCardinality(tasks) - 1]_vars

\* C21 witness: the reconnection has cleared the latch and has not yet
\* broadcast, while a Send that found the latch set is still in cond.Wait().
C21_Witness ==
    /\ ~reconnecting
    /\ \E r \in Running : InReconnect(r) /\ r.pc = "Broadcast"
    /\ \E t \in SendTasks : t.pc = "condWait"

(* ------------------------------- C22 ---------------------------------- *)
\* C22: the counter update is serialized: whatever the interleaving of the
\* Send calls, no two notifications submitted with identifier 0 are assigned
\* the same identifier, and no step makes the counter smaller.
C22_CounterSerialized ==
    /\ [](\A i, j \in DOMAIN assigned : i # j => assigned[i] # assigned[j])
    /\ [][id' >= id]_vars

\* C22 witness: two submitters are inside Send at the same time, both with
\* identifier 0; they were assigned 1 and 2 and neither has written yet.
C22_Witness ==
    /\ assigned = <<1, 2>> /\ id = 3
    /\ \E t, u \in SendTasks :
          /\ t.caller = 1 /\ u.caller = 2
          /\ t.n.Identifier # u.n.Identifier
          /\ t.pc \in {"wait", "Write"} /\ u.pc \in {"wait", "Write"}
    /\ wire = <<>>

(* ------------------------------- C23 ---------------------------------- *)
\* The tasks that wait for a lock or for the latch: for idm (at "idm"), for
\* cond.L (at "wait", "reconnect", "clear"), for the latch (in cond.Wait()),
\* for the buffer's mutex (a Send at "Add", the reader at "Lock").
WaitsForLock ==
    {t \in Running : t.pc \in {"idm", "wait", "condWait", "reconnect", "clear",
                                "Add", "Lock"}}

\* What each lock guards changes in the step: the counter (idm), the latch
\* (cond.L), the window (the buffer's mutex).
IdmUsed == id' # id
CondLUsed == reconnecting' # reconnecting
SentMuUsed == sent' # sent \/ sentMu' # sentMu

\* C23: the locking discipline cannot deadlock.  No step works under more
\* than one of the three locks, and the reader, while it holds the buffer's
\* mutex, takes no other lock: its next step is the Unlock.  Whenever the
\* buffer's mutex is held, its one holder can release it at once (so the
\* replays the reader started are not blocked forever); whenever a Send is
\* in cond.Wait(), a reconnection is on its way to the Broadcast; and in no
\* reachable state do tasks wait for a lock or the latch while no goroutine
\* can take a step.
C23_NoDeadlock ==
    /\ [](/\ sentMu =>
                /\ CountAt({t \in Running : t.kind = "readErrs"}, {"Unlock"}) = 1
                /\ \A t \in Running :
                      (t.kind = "readErrs" /\ t.pc = "Unlock") =>
                         ENABLED ReadErrsUnlock(t)
          /\ ~sentMu => \A t \in Running : t.pc # "Unlock"
          /\ InCondWait =>
                \E r \in Running :
                   InReconnect(r) /\ r.pc \in {"Connect", "clear", "Broadcast"}
          /\ WaitsForLock # {} => ENABLED GoroutineStep)
    /\ [][/\ ~(IdmUsed /\ CondLUsed)
           /\ ~(IdmUsed /\ SentMuUsed)
           /\ ~(CondLUsed /\ SentMuUsed)
           /\ \A t \in Running :
                 (StepOf(t) /\ t.kind = "readErrs" /\ t.pc = "Unlock") =>
                    ~sentMu' /\ ~IdmUsed /\ ~CondLUsed /\ Started = EmptyBag]_vars

\* C23 witness: the reader still holds the buffer's mutex after its scan,
\* while a replay it started has already written its frame on the new
\* connection and waits for the mutex to add to the window.
C23_Witness ==
    /\ sentMu
    /\ \E t \in Running :
          /\ t.kind = "readErrs" /\ t.pc = "Unlock"
          /\ \E u \in SendTasks :
                u.pc = "Add" /\ u.replay[1] = t.replay[1] /\ u.replay[2] >= 1

====
